---- MODULE Spec2Model ----
(***************************************************************************)
(* Model of zfs_apt_snapshot.py: the APT pre-install hook that snapshots   *)
(* the ZFS datasets a package operation is about to modify.                *)
(*                                                                         *)
(* Two specifications are defined over one set of variables:               *)
(*   SpecReducer  the loop of directories_for_package on one file list,    *)
(*                followed by a second application to its own output;      *)
(*   Spec         one run of the script: module load, main() and the       *)
(*                functions it calls.                                      *)
(*                                                                         *)
(* Strings.  A path string is modelled by the sequence of its segments     *)
(* between "/" characters (what str.split("/") returns), so "/a/b/" is     *)
(* <<"", "a", "b", "">>, "./" is <<".", "">> and "" is <<"">>.  The        *)
(* representation is one-to-one with strings whose segments come from      *)
(* Segs.                                                                   *)
(***************************************************************************)
EXTENDS Integers, Sequences, FiniteSets, TLC

(***************************************************************************)
(* Bounds of the path reducer specification.                               *)
(***************************************************************************)
MaxSegs == 3
MaxFiles == 2

Segs == {"", ".", "a", "b"}

PathStrs == UNION {[1..n -> Segs] : n \in 1..MaxSegs}

FileLists == UNION {[1..n -> PathStrs] : n \in 0..MaxFiles}

(***************************************************************************)
(* pathlib.PurePosixPath                                                   *)
(***************************************************************************)
RECURSIVE DropDots(_)
DropDots(segs) ==
    IF segs = <<>> THEN <<>>
    ELSE IF Head(segs) \in {"", "."} THEN DropDots(Tail(segs))
         ELSE <<Head(segs)>> \o DropDots(Tail(segs))

\* The root of a posix path: "/" for a leading slash, "//" for exactly two
\* leading slashes, "" for a relative path.
RootOf(segs) ==
    IF Len(segs) >= 2 /\ segs[1] = ""
    THEN IF Len(segs) >= 3 /\ segs[2] = "" /\ (Len(segs) = 3 \/ segs[3] # "")
         THEN "//"
         ELSE "/"
    ELSE ""

PurePosixPath(segs) == [root |-> RootOf(segs), parts |-> DropDots(segs)]

RootPath == [root |-> "/", parts |-> <<>>]

is_absolute(path) == path.root # ""

\* path_prefix / path, for a relative right operand
JoinPath(prefix, path) ==
    IF is_absolute(path) THEN path
    ELSE [root |-> prefix.root, parts |-> prefix.parts \o path.parts]

parents(path) ==
    {[root |-> path.root, parts |-> SubSeq(path.parts, 1, k)] :
        k \in 0..(Len(path.parts) - 1)}

\* str(path): the string a PurePosixPath prints as
PathStr(path) ==
    IF path.root = "" THEN (IF path.parts = <<>> THEN <<".">> ELSE path.parts)
    ELSE IF path.root = "/"
         THEN (IF path.parts = <<>> THEN <<"", "">> ELSE <<"">> \o path.parts)
         ELSE (IF path.parts = <<>> THEN <<"", "", "">>
               ELSE <<"", "">> \o path.parts)

(***************************************************************************)
(* directories_for_package                                                 *)
(***************************************************************************)
RootMarkers == {<<".", "">>, <<"", ".">>, <<"", "">>}      \* "./"  "/."  "/"

SkippedEntries == {<<".", "">>, <<"", ".">>, <<"">>, <<".">>} \* "./" "/." "" "."

\* path_prefix after line 461: bound to "/" only when the first entry is a
\* root marker, otherwise the local name stays unbound.
PrefixFor(first_path) ==
    [bound |-> first_path \in RootMarkers, path |-> RootPath]

\* One pass of the loop body (lines 468-474) on an entry that the generator
\* of lines 462-467 let through.  raised: the UnboundLocalError of line 472.
ReduceStep(dirs, prefix, p) ==
    LET raw == PurePosixPath(p)
        path == JoinPath(prefix.path, raw)
    IN  IF ~is_absolute(raw) /\ ~prefix.bound
        THEN [raised |-> TRUE, dirs |-> dirs]
        ELSE [raised |-> FALSE, dirs |-> (dirs \ parents(path)) \cup {path}]

RECURSIVE ReduceFrom(_, _, _, _)
ReduceFrom(path_strs, i, prefix, dirs) ==
    IF i > Len(path_strs) THEN [raised |-> FALSE, dirs |-> dirs]
    ELSE IF path_strs[i] \in SkippedEntries
         THEN ReduceFrom(path_strs, i + 1, prefix, dirs)
         ELSE LET r == ReduceStep(dirs, prefix, path_strs[i])
              IN  IF r.raised THEN r
                  ELSE ReduceFrom(path_strs, i + 1, prefix, r.dirs)

\* The whole function; raised covers the IndexError of line 459 on an empty
\* file list and the UnboundLocalError of line 472.
directories_for_package(path_strs) ==
    IF path_strs = <<>> THEN [raised |-> TRUE, dirs |-> {}]
    ELSE ReduceFrom(path_strs, 1, PrefixFor(path_strs[1]), {})

IsAncestor(p, q) ==
    /\ p.root = q.root
    /\ Len(p.parts) < Len(q.parts)
    /\ \A k \in 1..Len(p.parts) : p.parts[k] = q.parts[k]

PrefixFree(dirs) == \A p \in dirs : \A q \in dirs : ~IsAncestor(p, q)

(***************************************************************************)
(* datetime.  A datetime is a record of its seven fields; the clock is     *)
(* read as seconds since 1970-01-01 plus a microsecond part.  The two      *)
(* conversions are the proleptic Gregorian day count datetime uses.        *)
(***************************************************************************)
DaysFromCivil(y, m, d) ==
    LET yy == IF m <= 2 THEN y - 1 ELSE y
        era == yy \div 400
        yoe == yy - era * 400
        mp == IF m > 2 THEN m - 3 ELSE m + 9
        doy == (153 * mp + 2) \div 5 + d - 1
        doe == yoe * 365 + yoe \div 4 - yoe \div 100 + doy
    IN  era * 146097 + doe - 719468

CivilFromDays(z) ==
    LET zz == z + 719468
        era == zz \div 146097
        doe == zz - era * 146097
        yoe == (doe - doe \div 1460 + doe \div 36524 - doe \div 146096) \div 365
        doy == doe - (365 * yoe + yoe \div 4 - yoe \div 100)
        mp == (5 * doy + 2) \div 153
        d == doy - (153 * mp + 2) \div 5 + 1
        m == IF mp < 10 THEN mp + 3 ELSE mp - 9
        y == yoe + era * 400 + (IF m <= 2 THEN 1 ELSE 0)
    IN  [year |-> y, month |-> m, day |-> d]

DateTime(y, mo, d, h, mi, s, us) ==
    [year |-> y, month |-> mo, day |-> d, hour |-> h, minute |-> mi,
     second |-> s, microsecond |-> us]

\* datetime.utcfromtimestamp / fromtimestamp of a clock reading
FromClock(sec, usec) ==
    LET days == sec \div 86400
        rest == sec % 86400
        c == CivilFromDays(days)
    IN  DateTime(c.year, c.month, c.day,
                 rest \div 3600, (rest % 3600) \div 60, rest % 60, usec)

\* dt - datetime.timedelta(days=period)
MinusDays(dt, period) ==
    LET c == CivilFromDays(DaysFromCivil(dt.year, dt.month, dt.day) - period)
    IN  [dt EXCEPT !.year = c.year, !.month = c.month, !.day = c.day]

\* a < b on naive datetimes: lexicographic on the seven fields
DateTimeLess(a, b) ==
    LET ka == <<a.year, a.month, a.day, a.hour, a.minute, a.second,
                a.microsecond>>
        kb == <<b.year, b.month, b.day, b.hour, b.minute, b.second,
                b.microsecond>>
    IN  \E i \in 1..7 : /\ ka[i] < kb[i]
                        /\ \A j \in 1..(i - 1) : ka[j] = kb[j]

DaysInMonth(y, m) ==
    IF m = 2
    THEN (IF (y % 4 = 0 /\ y % 100 # 0) \/ y % 400 = 0 THEN 29 ELSE 28)
    ELSE IF m \in {4, 6, 9, 11} THEN 30 ELSE 31

(***************************************************************************)
(* Snapshot names.  The part of a snapshot name after "@" is a sequence of *)
(* tokens: Lit(c) is literal text, Num(n) a run of decimal digits read as  *)
(* the number n (one field of a timestamp).  The separator that follows    *)
(* the prefix is a one-character token, so the slice of line 624 drops     *)
(* exactly one token after the prefix.                                     *)
(***************************************************************************)
Lit(c) == [k |-> c, v |-> 0]
Num(n) == [k |-> "num", v |-> n]

SNAPSHOT_PREFIX == <<Lit("zfs-apt-snap")>>

SNAPSHOT_TIMESTAMP_FORMAT ==
    <<"%Y", "-", "%m", "-", "%d", "T", "%H", "%M", "%S">>

IsDirective(f) == f \in {"%Y", "%m", "%d", "%H", "%M", "%S"}

\* datetime.strftime(SNAPSHOT_TIMESTAMP_FORMAT) (line 721)
FormatField(dt, f) ==
    IF f = "%Y" THEN Num(dt.year)
    ELSE IF f = "%m" THEN Num(dt.month)
    ELSE IF f = "%d" THEN Num(dt.day)
    ELSE IF f = "%H" THEN Num(dt.hour)
    ELSE IF f = "%M" THEN Num(dt.minute)
    ELSE IF f = "%S" THEN Num(dt.second)
    ELSE Lit(f)

strftime(dt, fmt) == [i \in 1..Len(fmt) |-> FormatField(dt, fmt[i])]

\* "{}_{}".format(SNAPSHOT_PREFIX, timestamp) (line 722)
SnapshotName(timestamp) == SNAPSHOT_PREFIX \o <<Lit("_")>> \o timestamp

\* "{}@{}".format(f, snapshot_name) (lines 725-731)
FullName(fs, snapshot_name) == [fs |-> fs, snap |-> snapshot_name]

StartsWith(s, prefix) ==
    /\ Len(s) >= Len(prefix)
    /\ \A i \in 1..Len(prefix) : s[i] = prefix[i]

is_apt_snapshot(snapshot) == StartsWith(snapshot.snap, SNAPSHOT_PREFIX)

\* The range of numbers a directive's pattern accepts (_strptime's regexes).
DirectiveAccepts(f, n) ==
    IF f = "%Y" THEN n \in 0..9999
    ELSE IF f = "%m" THEN n \in 1..12
    ELSE IF f = "%d" THEN n \in 1..31
    ELSE IF f = "%H" THEN n \in 0..23
    ELSE IF f = "%M" THEN n \in 0..59
    ELSE n \in 0..61

FormatMatches(s, fmt) ==
    /\ Len(s) = Len(fmt)
    /\ \A i \in 1..Len(fmt) :
          IF IsDirective(fmt[i])
          THEN s[i].k = "num" /\ DirectiveAccepts(fmt[i], s[i].v)
          ELSE s[i] = Lit(fmt[i])

FieldOr(s, fmt, f, default) ==
    IF \E i \in 1..Len(fmt) : fmt[i] = f
    THEN s[CHOOSE i \in 1..Len(fmt) : fmt[i] = f].v
    ELSE default

\* datetime.datetime.strptime(s, fmt): ok is FALSE where it raises ValueError,
\* for a string the format does not match or fields that are no datetime.
strptime(s, fmt) ==
    IF ~FormatMatches(s, fmt)
    THEN [ok |-> FALSE, dt |-> DateTime(1900, 1, 1, 0, 0, 0, 0)]
    ELSE LET dt == DateTime(FieldOr(s, fmt, "%Y", 1900),
                            FieldOr(s, fmt, "%m", 1),
                            FieldOr(s, fmt, "%d", 1),
                            FieldOr(s, fmt, "%H", 0),
                            FieldOr(s, fmt, "%M", 0),
                            FieldOr(s, fmt, "%S", 0), 0)
         IN  [ok |-> /\ dt.year >= 1
                     /\ dt.day <= DaysInMonth(dt.year, dt.month)
                     /\ dt.second <= 59,
              dt |-> dt]

\* fmt[:fmt.rfind("%")]
DropLastToken(fmt) ==
    LET ds == {i \in 1..Len(fmt) : IsDirective(fmt[i])}
    IN  IF ds = {} THEN SubSeq(fmt, 1, Len(fmt) - 1)
        ELSE SubSeq(fmt, 1, (CHOOSE i \in ds : \A j \in ds : j <= i) - 1)

\* the generator drop_tokens of lines 602-606
RECURSIVE drop_tokens(_)
drop_tokens(fmt) ==
    IF fmt = <<>> THEN <<>>
    ELSE <<fmt>> \o drop_tokens(DropLastToken(fmt))

IsNotT(f) == f # "T"

\* lines 608-619
timestamp_formats ==
    drop_tokens(SNAPSHOT_TIMESTAMP_FORMAT)
    \o drop_tokens(SelectSeq(SNAPSHOT_TIMESTAMP_FORMAT, IsNotT))
    \o drop_tokens([i \in 1..Len(SNAPSHOT_TIMESTAMP_FORMAT) |->
                      IF SNAPSHOT_TIMESTAMP_FORMAT[i] = "T" THEN "-"
                      ELSE SNAPSHOT_TIMESTAMP_FORMAT[i]])

\* lines 630-645: the first format of the family that parses, if any
ParseTimestamp(timestamp_string) ==
    LET formats == timestamp_formats
        hits == {i \in 1..Len(formats) :
                    strptime(timestamp_string, formats[i]).ok}
    IN  IF hits = {}
        THEN [ok |-> FALSE, dt |-> DateTime(1900, 1, 1, 0, 0, 0, 0)]
        ELSE strptime(timestamp_string,
                      formats[CHOOSE i \in hits : \A j \in hits : i <= j])

\* lines 622-624
TimestampString(snapshot) ==
    SubSeq(snapshot.snap, Len(SNAPSHOT_PREFIX) + 2, Len(snapshot.snap))

\* list_apt_snapshots (lines 437-443)
list_apt_snapshots(all_snapshots) ==
    {s \in all_snapshots : is_apt_snapshot(s)}

\* the comparison with the boundary included
IsOldInclusive(snap_timestamp, limit) == ~DateTimeLess(limit, snap_timestamp)

\* snap_timestamp < limit (line 646)
IsOld(snap_timestamp, limit) == DateTimeLess(snap_timestamp, limit)

\* list_old passing over the names it cannot parse instead of exiting
list_old_skipping(period, local_now, all_snapshots) ==
    LET limit == MinusDays(local_now, period)
        apt_snapshots == list_apt_snapshots(all_snapshots)
        parsed == [s \in apt_snapshots |-> ParseTimestamp(TimestampString(s))]
    IN  [exits |-> FALSE,
         old_snaps |-> {s \in apt_snapshots :
                           parsed[s].ok /\ IsOld(parsed[s].dt, limit)}]

\* list_old: exits is the sys.exit(1) of line 645, old_snaps the list returned.
list_old(period, local_now, all_snapshots) ==
    LET limit == MinusDays(local_now, period)
        apt_snapshots == list_apt_snapshots(all_snapshots)
        parsed == [s \in apt_snapshots |-> ParseTimestamp(TimestampString(s))]
    IN  IF \E s \in apt_snapshots : ~parsed[s].ok
        THEN [exits |-> TRUE, old_snaps |-> {}]
        ELSE [exits |-> FALSE,
              old_snaps |-> {s \in apt_snapshots : IsOld(parsed[s].dt, limit)}]

(***************************************************************************)
(* The system the run sees.  Mounted filesystems and zvol device nodes are *)
(* what list_mounted_filesystems and list_zfs_volumes read.                *)
(***************************************************************************)
Path(parts) == [root |-> "/", parts |-> parts]

\* list_mounted_filesystems: mountpoint -> Filesystem(type_, name)
MountedFilesystems ==
    {[mountpoint |-> Path(<<>>), type_ |-> "ext4", name |-> "/dev/sda1"],
     [mountpoint |-> Path(<<"a">>), type_ |-> "zfs", name |-> "tank/a"],
     [mountpoint |-> Path(<<"b">>), type_ |-> "ext4", name |-> "/dev/zd0"]}

\* list_zfs_volumes: device path -> volume name, the symlink under /dev/zvol
\* and the device it resolves to
ZfsVolumes ==
    {[device |-> "/dev/zvol/tank/vol", volume |-> "tank/vol"],
     [device |-> "/dev/zd0", volume |-> "tank/vol"]}

\* the directories that exist before the packages are unpacked
ExistingPaths == {Path(<<>>), Path(<<"a">>), Path(<<"b">>)}

(***************************************************************************)
(* State of get_filesystems: the two tables it reads at lines 388-389, and *)
(* for the resolver specification its arguments and what it returned.      *)
(***************************************************************************)
VARIABLES
    mounted_filesystems, \* get_filesystems: mounted_filesystems
    zfs_volumes,         \* get_filesystems: zfs_volumes
    res_paths,           \* the paths get_filesystems is called with
    res_out,             \* what the call returned
    res_pc               \* "call", "returned", "idle"

svars == <<mounted_filesystems, zfs_volumes, res_paths, res_out, res_pc>>

\* path.relative_to(mountpoint) does not raise
IsBelow(path, mountpoint) ==
    /\ path.root = mountpoint.root
    /\ Len(mountpoint.parts) <= Len(path.parts)
    /\ \A k \in 1..Len(mountpoint.parts) : mountpoint.parts[k] = path.parts[k]

\* lines 483-491: the closest parent that exists
RECURSIVE ConcretePath(_)
ConcretePath(path) ==
    IF path.parts = <<>> \/ Path(path.parts) \in ExistingPaths THEN path
    ELSE ConcretePath([path EXCEPT
                          !.parts = SubSeq(path.parts, 1, Len(path.parts) - 1)])

\* the comparison of line 400 turned round: the mountpoint with the fewest parts
ParentMountpointsShortest(path) ==
    {m \in mounted_filesystems :
        /\ IsBelow(path, m.mountpoint)
        /\ \A o \in mounted_filesystems :
              IsBelow(path, o.mountpoint)
                  => Len(m.mountpoint.parts) <= Len(o.mountpoint.parts)}

\* lines 393-403: the mountpoint with the most parts among those above path
ParentMountpoints(path) ==
    {m \in mounted_filesystems :
        /\ IsBelow(path, m.mountpoint)
        /\ \A o \in mounted_filesystems :
              IsBelow(path, o.mountpoint)
                  => Len(o.mountpoint.parts) <= Len(m.mountpoint.parts)}

\* lines 407-420: the datasets one path contributes
DatasetsOf(path) ==
    LET fs == CHOOSE m \in ParentMountpoints(path) : TRUE
    IN  IF fs.type_ = "zfs" THEN {fs.name}
        ELSE {v.volume : v \in {z \in zfs_volumes : z.device = fs.name}}

\* get_filesystems: asserts is the failed assertion of line 406
get_filesystems(paths) ==
    IF \E p \in paths : ParentMountpoints(p) = {}
    THEN [asserts |-> TRUE, datasets |-> {}]
    ELSE [asserts |-> FALSE, datasets |-> UNION {DatasetsOf(p) : p \in paths}]

\* filesystems_for_files
filesystems_for_files(files) ==
    get_filesystems({ConcretePath(f) : f \in files})

(***************************************************************************)
(* The package manager.  A line of the hook stream is the sequence of its  *)
(* space-separated words, the blank line (and end of file) is <<>>.        *)
(***************************************************************************)
\* DebPackage(filename).filelist of the package files that can be opened
ArchiveFiles ==
    {[filename |-> <<"/tmp/pkg-a.deb">>,
      filelist |-> <<<<".", "">>, <<".", "a", "">>, <<".", "a", "x">>>>],
     [filename |-> <<"/tmp/pkg-b.deb">>,
      filelist |-> <<<<"", "a", "y", "z">>, <<"", "a", "y", "">>>>],
     [filename |-> <<"/tmp/pkg-c.deb">>,
      filelist |-> <<<<".", "">>, <<".", "a", "x">>, <<".", "b", "x">>>>]}

\* apt.Cache(): name -> is_installed, installed_files
AptCache ==
    {[name |-> <<"pkg-a">>, is_installed |-> TRUE,
      installed_files |-> <<<<"", ".">>, <<"", "a">>, <<"", "a", "x">>>>],
     [name |-> <<"pkg-c">>, is_installed |-> FALSE,
      installed_files |-> <<>>],
     [name |-> <<"my", "pkg">>, is_installed |-> TRUE,
      installed_files |-> <<<<"", ".">>, <<"", "b">>, <<"", "b", "x">>>>]}

Blank == <<>>

VersionLine(n) == <<"VERSION", n>>

\* int() of the text after "VERSION "
Numerals == {"0", "1", "2", "3", "4"}

IntOf(w) ==
    IF w = "0" THEN 0 ELSE IF w = "1" THEN 1 ELSE IF w = "2" THEN 2
    ELSE IF w = "3" THEN 3 ELSE 4

\* line.startswith("VERSION ")
HasVersionPrefix(line) == Len(line) >= 2 /\ line[1] = "VERSION"

\* the check without its lower bound
VersionSupportedNoLowerBound(version) == version <= 3

\* 1 <= version <= 3 (line 516)
VersionSupported(version) == 1 <= version /\ version <= 3

\* line.split(" ", maxsplit): the split counted from the left
lsplit(line, maxsplit) ==
    LET n == Len(line)
    IN  IF n <= maxsplit + 1
        THEN [i \in 1..n |-> <<line[i]>>]
        ELSE [i \in 1..(maxsplit + 1) |->
                 IF i = maxsplit + 1 THEN SubSeq(line, i, n)
                 ELSE <<line[i]>>]

\* line.rsplit(" ", maxsplit): the fields, each a sequence of words
rsplit(line, maxsplit) ==
    LET n == Len(line)
    IN  IF n <= maxsplit + 1
        THEN [i \in 1..n |-> <<line[i]>>]
        ELSE [i \in 1..(maxsplit + 1) |->
                 IF i = 1 THEN SubSeq(line, 1, n - maxsplit)
                 ELSE <<line[n - maxsplit - 1 + i]>>]

\* Every enumeration of a finite set as a sequence without repetition.
Orderings(S) ==
    {f \in [1..Cardinality(S) -> S] :
        \A i \in DOMAIN f : \A j \in DOMAIN f : i # j => f[i] # f[j]}

(***************************************************************************)
(* State of the path reducer specification: one call of                    *)
(* directories_for_package, stepped through its loop.                      *)
(***************************************************************************)
VARIABLES
    path_strs,      \* pkg.filelist / pkg.installed_files
    path_prefix,    \* the local path_prefix, bound or not
    r_i,            \* position of the generator `paths` in path_strs
    r_directories,  \* the local set `directories`
    r_pc,           \* "first_path", "loop", "returned", "raised", "idle"
    r_pass,         \* 1: the call on the file list, 2: the call on its output
    r_first         \* the set the first call returned

rvars == <<path_strs, path_prefix, r_i, r_directories, r_pc, r_pass, r_first>>

(***************************************************************************)
(* State of one run of the script.                                         *)
(***************************************************************************)
VARIABLES
    pc,                  \* where the run is
    exit_status,         \* the process exit status, -1 while running
    binding,             \* the implementation each storage operation is bound to
    args,                \* get_config()
    pool,                \* the snapshots that exist in the storage engine
    version,             \* get_files: the protocol version
    line,                \* get_files: the current line
    stream_read,         \* the lines read from the stream so far
    directories,         \* get_files: directories, until main has resolved it
    opened,              \* the filenames passed to DebPackage, in order
    looked_up,           \* the names whose installed_files were read, in order
    filesystems,         \* main: filesystems
    pending,             \* what the current for loop has not visited yet
    enabled_filesystems, \* main: enabled_filesystems
    props_seen,          \* volume -> the stored com.sun:auto-snapshot read
    clock,               \* the UTC clock reading of line 721, in seconds
    snapshot_name,       \* main: snapshot_name
    create_calls,        \* the arguments of the create_snapshot calls, in order
    created,             \* the snapshots this run added to the pool
    exists_raised,       \* create_snapshot raised SnapshotExists
    now,                 \* the local clock reading of line 598
    listed,              \* what `zfs list -t snapshot` returned to list_old
    list_old_called,     \* list_old was called
    old_snaps,           \* main: old_snaps
    destroy_calls,       \* the arguments of the destroy_snapshots calls
    destroyed            \* the snapshots this run removed from the pool

mvars == <<pc, exit_status, binding, args, pool, version, line, stream_read,
           directories, opened, looked_up, filesystems, pending,
           enabled_filesystems, props_seen, clock, snapshot_name,
           create_calls, created, exists_raised, now, listed,
           list_old_called, old_snaps, destroy_calls, destroyed>>

vars == <<rvars, mvars, svars>>

Unbound == [bound |-> FALSE, path |-> RootPath]

RInit ==
    /\ path_strs \in FileLists
    /\ path_prefix = Unbound
    /\ r_i = 1
    /\ r_directories = {}
    /\ r_pc = "first_path"
    /\ r_pass = 1
    /\ r_first = {}

\* lines 459-461
RFirstPath ==
    /\ UNCHANGED <<mvars, svars>>
    /\ r_pc = "first_path"
    /\ IF path_strs = <<>>
       THEN /\ r_pc' = "raised"
            /\ UNCHANGED path_prefix
       ELSE /\ r_pc' = "loop"
            /\ path_prefix' = PrefixFor(path_strs[1])
    /\ UNCHANGED <<path_strs, r_i, r_directories, r_pass, r_first>>

\* lines 462-474, one entry of path_strs
RLoop ==
    /\ UNCHANGED <<mvars, svars>>
    /\ r_pc = "loop"
    /\ r_i <= Len(path_strs)
    /\ IF path_strs[r_i] \in SkippedEntries
       THEN UNCHANGED <<r_directories, r_pc>>
       ELSE LET r == ReduceStep(r_directories, path_prefix, path_strs[r_i])
            IN  /\ r_directories' = r.dirs
                /\ r_pc' = IF r.raised THEN "raised" ELSE "loop"
    /\ r_i' = r_i + 1
    /\ UNCHANGED <<path_strs, path_prefix, r_pass, r_first>>

\* line 475
RReturn ==
    /\ UNCHANGED <<mvars, svars>>
    /\ r_pc = "loop"
    /\ r_i > Len(path_strs)
    /\ r_pc' = "returned"
    /\ UNCHANGED <<path_strs, path_prefix, r_i, r_directories, r_pass, r_first>>

\* A second call, on the returned set enumerated in some order.
RReapply ==
    /\ UNCHANGED <<mvars, svars>>
    /\ r_pc = "returned"
    /\ r_pass = 1
    /\ \E order \in Orderings({PathStr(d) : d \in r_directories}) :
          path_strs' = order
    /\ path_prefix' = Unbound
    /\ r_i' = 1
    /\ r_first' = r_directories
    /\ r_directories' = {}
    /\ r_pc' = "first_path"
    /\ r_pass' = 2

(***************************************************************************)
(* Bounds and input sets of the run.                                       *)
(***************************************************************************)
MaxSnaps == 2       \* snapshots in the pool when the run starts
MaxRecords == 1     \* package lines of the stream
MaxConfig == 1      \* lines of the configuration block

\* the instant of the run: 2020-03-01T00:00:30 UTC
BaseClock == DaysFromCivil(2020, 3, 1) * 86400 + 30

ClockReadings == {BaseClock}

\* local time minus UTC, in seconds
TzOffsets == {0, 3600}

Microseconds == {0, 1}

Periods == {0, 1}

Datasets == {"tank/a", "tank/vol"}

\* the snapshot a run at clock reading sec creates on fs
SnapAt(fs, sec) ==
    FullName(fs, SnapshotName(strftime(FromClock(sec, 0),
                                       SNAPSHOT_TIMESTAMP_FORMAT)))

\* a snapshot of an earlier revision, named by the date alone
SnapOnDay(fs, sec) ==
    FullName(fs, SnapshotName(strftime(FromClock(sec, 0),
                                       <<"%Y", "-", "%m", "-", "%d">>)))

OwnEpochs == {BaseClock - 86400 - 1, BaseClock - 86400, BaseClock}

LegacyDay == BaseClock - 30 - 2 * 86400

UnparseableSnapshot ==
    FullName("tank/a", SNAPSHOT_PREFIX \o <<Lit("_"), Lit("before-upgrade")>>)

ForeignSnapshot ==
    FullName("tank/vol",
             <<Lit("manual"), Lit("_")>>
             \o strftime(FromClock(BaseClock - 86400 - 1, 0),
                         SNAPSHOT_TIMESTAMP_FORMAT))

SnapshotUniverse ==
    {SnapAt("tank/a", e) : e \in OwnEpochs}
    \cup {SnapOnDay("tank/vol", LegacyDay), UnparseableSnapshot,
          ForeignSnapshot}

\* what the capability probe of lines 31-55 can find
ProbeOutcomes ==
    {[import |-> FALSE, supported |-> {}],
     [import |-> TRUE, supported |-> {}],
     [import |-> TRUE, supported |-> {"lzc_snapshot", "lzc_list_snaps"}],
     [import |-> TRUE, supported |-> {"lzc_get_props"}],
     [import |-> TRUE,
      supported |-> {"lzc_snap", "lzc_list_snaps", "lzc_get_props"}]}

FirstLines ==
    {VersionLine(n) : n \in Numerals}
    \cup {<<"/tmp/pkg-a.deb">>, <<"/tmp/pkg-b.deb">>, Blank}

ArchiveLines ==
    {<<"/tmp/pkg-a.deb">>, <<"/tmp/pkg-b.deb">>, <<"/tmp/pkg-c.deb">>, Blank}

ConfigLines == {<<"APT::Architecture=amd64">>, Blank}

\* the package lines of a run: an installation, a removal and, in the fields
\* of version 3, an upgrade; SpecRecords goes through every kind of line
RecordLines ==
    {<<"pkg-c", "-", "<", "1.0", "/tmp/pkg-c.deb">>,
     <<"pkg-a", "1.0", ">", "-", "**REMOVE**">>,
     <<"pkg-a", "1.0", "amd64", "none", "<", "2.0", "amd64", "none",
       "/tmp/pkg-b.deb">>,
     Blank}

\* the package lines apt writes, field by field (lines 547-556): the name,
\* the old version, the fields in between, and the action
PackageNames == {<<"pkg-a">>, <<"pkg-c">>, <<"my", "pkg">>, <<"pkg-x">>}

OldVersions == {"-", "1.0"}

ActionFields ==
    {"**REMOVE**", "**CONFIGURE**", "/tmp/pkg-a.deb", "/tmp/pkg-b.deb",
     "/tmp/pkg-c.deb"}

MiddleFields(v) ==
    IF v = 2 THEN <<"<", "2.0">>
    ELSE <<"amd64", "none", "<", "2.0", "amd64", "none">>

Record(v, name, old, action) ==
    name \o <<old>> \o MiddleFields(v) \o <<action>>

\* the stored value of com.sun:auto-snapshot on a dataset; "" is unset
StoredValues == {"", "false", "Off", "true"}

(***************************************************************************)
(* Module load: the capability probe and the choice of implementations.    *)
(***************************************************************************)
\* lines 31-55, 128-242.  Without the binding the name _lzc_destroy_snaps is
\* never assigned, so line 218 cannot bind destroy_snapshots; with it the
\* name holds lzc_get_props (line 53).
Bind(probe) ==
    [create_snapshot |->
        IF probe.import /\ probe.supported \cap {"lzc_snapshot", "lzc_snap"} # {}
        THEN "native" ELSE "shell",
     list_snapshots |->
        IF probe.import /\ "lzc_list_snaps" \in probe.supported
        THEN "native" ELSE "shell",
     get_dataset_props |->
        IF probe.import /\ "lzc_get_props" \in probe.supported
        THEN "native" ELSE "shell",
     destroy_snapshots |->
        IF ~probe.import THEN "unbound"
        ELSE IF "lzc_get_props" \in probe.supported THEN "lzc_get_props"
        ELSE "shell"]

(***************************************************************************)
(* get_dataset_props                                                       *)
(***************************************************************************)
Lower(raw) == IF raw = "Off" THEN "off" ELSE raw

BoolValue(b) == [kind |-> "bool", b |-> b, raw |-> ""]
BytesValue(raw) == [kind |-> "bytes", b |-> FALSE, raw |-> raw]

\* lines 207-210: the value the shell-out implementation stores
Coerce(raw) ==
    IF Lower(raw) \in {"on", "true"} THEN BoolValue(TRUE)
    ELSE IF Lower(raw) \in {"off", "false"} THEN BoolValue(FALSE)
    ELSE BytesValue(raw)

\* the value of com.sun:auto-snapshot in the map get_dataset_props returns
\* for a dataset that has it set: lines 166-172 hand back what the binding
\* returns, lines 174-215 coerce it
PropertyValue(impl, raw) ==
    IF impl = "native" THEN BytesValue(raw) ELSE Coerce(raw)

Truthy(value) == IF value.kind = "bool" THEN value.b ELSE value.raw # ""

\* properties.get("com.sun:auto-snapshot", True) (line 715)
AutoSnapshot(impl, stored) ==
    IF stored = "" THEN TRUE ELSE Truthy(PropertyValue(impl, stored))

(***************************************************************************)
(* get_files, one record of a version 2 or 3 stream (lines 563-590)        *)
(***************************************************************************)
FieldCount(v) == IF v = 2 THEN 5 ELSE 9

Archive(filename) == CHOOSE a \in ArchiveFiles : a.filename = filename
IsArchive(filename) == \E a \in ArchiveFiles : a.filename = filename
Cached(name) == CHOOSE c \in AptCache : c.name = name
IsCached(name) == \E c \in AptCache : c.name = name

NoEffect == [raised |-> FALSE, dirs |-> {}, opened |-> <<>>, looked_up |-> <<>>]

RecordEffect(v, record) ==
    LET fields == rsplit(record, FieldCount(v) - 1)
        pkg_name == fields[1]
        installed_version == fields[2]
        action == fields[Len(fields)]
    IN  IF Len(fields) < 3 THEN [NoEffect EXCEPT !.raised = TRUE]
        ELSE IF action \in {<<"**REMOVE**">>, <<"**CONFIGURE**">>}
        THEN IF ~IsCached(pkg_name) THEN [NoEffect EXCEPT !.raised = TRUE]
             ELSE IF ~Cached(pkg_name).is_installed THEN NoEffect
             ELSE LET r == directories_for_package(
                               Cached(pkg_name).installed_files)
                  IN  [raised |-> r.raised, dirs |-> r.dirs,
                       opened |-> <<>>, looked_up |-> <<pkg_name>>]
        ELSE IF ~IsArchive(action)
        THEN [NoEffect EXCEPT !.raised = TRUE, !.opened = <<action>>]
        ELSE LET r == directories_for_package(Archive(action).filelist)
             IN  IF r.raised \/ installed_version = <<"-">>
                 THEN [raised |-> r.raised, dirs |-> r.dirs,
                       opened |-> <<action>>, looked_up |-> <<>>]
                 ELSE IF ~IsCached(pkg_name)
                 THEN [raised |-> TRUE, dirs |-> r.dirs,
                       opened |-> <<action>>, looked_up |-> <<>>]
                 ELSE LET q == directories_for_package(
                                   Cached(pkg_name).installed_files)
                      IN  [raised |-> q.raised, dirs |-> r.dirs \cup q.dirs,
                           opened |-> <<action>>,
                           looked_up |-> <<pkg_name>>]

(***************************************************************************)
(* The run                                                                 *)
(***************************************************************************)
gEnv == <<binding, args, pool>>
gParse == <<version, line, stream_read, directories, opened, looked_up>>
gFilter == <<filesystems, pending, enabled_filesystems, props_seen>>
gCreate == <<clock, snapshot_name, create_calls, created, exists_raised>>
gPrune == <<now, listed, list_old_called, old_snaps, destroy_calls, destroyed>>

\* argparse's defaults (lines 658-697)
DefaultArgs ==
    [respect_auto_snapshot |-> TRUE, purge |-> FALSE, list_old |-> TRUE,
     old_period |-> 30]

Unbinding ==
    [create_snapshot |-> "unbound", list_snapshots |-> "unbound",
     get_dataset_props |-> "unbound", destroy_snapshots |-> "unbound"]

MainStart ==
    /\ pc = "load"
    /\ exit_status = -1
    /\ binding = Unbinding
    /\ args = DefaultArgs
    /\ version = 0
    /\ line = Blank
    /\ stream_read = <<>>
    /\ directories = {}
    /\ opened = <<>>
    /\ looked_up = <<>>
    /\ filesystems = {}
    /\ pending = {}
    /\ enabled_filesystems = {}
    /\ props_seen = {}
    /\ clock = 0
    /\ snapshot_name = <<>>
    /\ create_calls = <<>>
    /\ created = {}
    /\ exists_raised = FALSE
    /\ now = [sec |-> 0, usec |-> 0]
    /\ listed = {}
    /\ list_old_called = FALSE
    /\ old_snaps = {}
    /\ destroy_calls = <<>>
    /\ destroyed = {}

RIdle ==
    /\ path_strs = <<>>
    /\ path_prefix = Unbound
    /\ r_i = 1
    /\ r_directories = {}
    /\ r_pc = "idle"
    /\ r_pass = 1
    /\ r_first = {}

\* the tables of the system of the run; no separate call of get_filesystems
SIdle ==
    /\ mounted_filesystems = MountedFilesystems
    /\ zfs_volumes = ZfsVolumes
    /\ res_paths = {}
    /\ res_out = [asserts |-> FALSE, datasets |-> {}]
    /\ res_pc = "idle"

Init ==
    /\ MainStart
    /\ SIdle
    /\ pool \in {S \in SUBSET SnapshotUniverse : Cardinality(S) <= MaxSnaps}
    /\ RIdle

\* get_files at line 562 with the first package line of a version 2 or 3
\* stream in hand, after an empty configuration block
InitRecords ==
    /\ RIdle
    /\ SIdle
    /\ pc = "records"
    /\ exit_status = -1
    /\ binding = Bind([import |-> TRUE, supported |-> {}])
    /\ \E respect \in BOOLEAN :
          args = [DefaultArgs EXCEPT !.respect_auto_snapshot = respect]
    /\ pool = {}
    /\ \E n \in {"2", "3"}, name \in PackageNames, old \in OldVersions,
          action \in ActionFields :
          /\ version = IntOf(n)
          /\ line = Record(IntOf(n), name, old, action)
          /\ stream_read = <<VersionLine(n), Blank, line>>
    /\ directories = {}
    /\ opened = <<>>
    /\ looked_up = <<>>
    /\ filesystems = {}
    /\ pending = {}
    /\ enabled_filesystems = {}
    /\ props_seen = {}
    /\ clock = 0
    /\ snapshot_name = <<>>
    /\ create_calls = <<>>
    /\ created = {}
    /\ exists_raised = FALSE
    /\ now = [sec |-> 0, usec |-> 0]
    /\ listed = {}
    /\ list_old_called = FALSE
    /\ old_snaps = {}
    /\ destroy_calls = <<>>
    /\ destroyed = {}

\* sys.exit(status), or an exception nobody catches (status 1)
Exit(status) ==
    /\ pc' = "exited"
    /\ exit_status' = status

Load ==
    /\ UNCHANGED <<rvars, svars>>
    /\ pc = "load"
    /\ \E probe \in ProbeOutcomes :
          /\ binding' = Bind(probe)
          /\ IF probe.import
             THEN pc' = "get_config" /\ UNCHANGED exit_status
             ELSE Exit(1)
    /\ UNCHANGED <<args, pool, gParse, gFilter, gCreate, gPrune>>

\* get_config (line 703)
GetConfig ==
    /\ UNCHANGED <<rvars, svars>>
    /\ pc = "get_config"
    /\ \E respect \in BOOLEAN, purge \in BOOLEAN, lst \in BOOLEAN,
          period \in Periods :
          args' = [respect_auto_snapshot |-> respect, purge |-> purge,
                   list_old |-> lst, old_period |-> period]
    /\ pc' = "get_files"
    /\ UNCHANGED <<exit_status, binding, pool, gParse, gFilter, gCreate,
                   gPrune>>

\* lines 507-514: version is -1 where int() raises ValueError
ParseVersion(first) ==
    IF HasVersionPrefix(first)
    THEN (IF Len(first) = 2 /\ first[2] \in Numerals THEN IntOf(first[2])
          ELSE -1)
    ELSE 1

\* lines 507-524, and for versions 2 and 3 the read of line 535
ReadFirstLine ==
    /\ UNCHANGED <<rvars, svars>>
    /\ pc = "get_files"
    /\ \E first \in FirstLines :
          LET v == ParseVersion(first)
          IN  /\ version' = v
              /\ IF ~VersionSupported(v)
                 THEN /\ Exit(1)
                      /\ line' = first
                      /\ stream_read' = <<first>>
                 ELSE IF v = 1
                 THEN /\ pc' = "v1_loop"
                      /\ line' = first
                      /\ stream_read' = <<first>>
                      /\ UNCHANGED exit_status
                 ELSE /\ pc' = "config_block"
                      /\ \E l \in ConfigLines :
                            /\ line' = l
                            /\ stream_read' = <<first, l>>
                      /\ UNCHANGED exit_status
    /\ UNCHANGED <<gEnv, directories, opened, looked_up, gFilter, gCreate,
                   gPrune>>

\* the lines stream.readline() can return next: the stream ends (reads as the
\* blank line) once MaxRecords package lines have been read
ArchiveBudget ==
    MaxRecords + (IF HasVersionPrefix(stream_read[1]) THEN 1 ELSE 0)

NextArchiveLines ==
    IF Len(stream_read) < ArchiveBudget THEN ArchiveLines ELSE {Blank}

\* lines 527-533, one pass
V1Step ==
    /\ UNCHANGED <<rvars, svars>>
    /\ pc = "v1_loop"
    /\ line # Blank
    /\ opened' = Append(opened, line)
    /\ IF ~IsArchive(line)
       THEN /\ Exit(1)
            /\ UNCHANGED <<directories, line, stream_read>>
       ELSE LET r == directories_for_package(Archive(line).filelist)
            IN  IF r.raised
                THEN /\ Exit(1)
                     /\ UNCHANGED <<directories, line, stream_read>>
                ELSE /\ directories' = directories \cup r.dirs
                     /\ \E l \in NextArchiveLines :
                           /\ line' = l
                           /\ stream_read' = Append(stream_read, l)
                     /\ UNCHANGED <<pc, exit_status>>
    /\ UNCHANGED <<gEnv, version, looked_up, gFilter, gCreate, gPrune>>

NextConfigLines ==
    IF Len(stream_read) - 1 < MaxConfig THEN ConfigLines ELSE {Blank}

\* lines 540-542, one pass
ConfigSkip ==
    /\ UNCHANGED <<rvars, svars>>
    /\ pc = "config_block"
    /\ line # Blank
    /\ \E l \in NextConfigLines :
          /\ line' = l
          /\ stream_read' = Append(stream_read, l)
    /\ UNCHANGED <<pc, exit_status, gEnv, version, directories, opened,
                   looked_up, gFilter, gCreate, gPrune>>

\* lines 543-561: the configuration block is over
ConfigEnd ==
    /\ UNCHANGED <<rvars, svars>>
    /\ pc = "config_block"
    /\ line = Blank
    /\ \E l \in RecordLines :
          /\ line' = l
          /\ stream_read' = Append(stream_read, l)
    /\ pc' = "records"
    /\ UNCHANGED <<exit_status, gEnv, version, directories, opened,
                   looked_up, gFilter, gCreate, gPrune>>

\* the package lines read so far: those after the configuration block
RecordsRead ==
    LET blanks == {i \in 2..Len(stream_read) : stream_read[i] = Blank}
        first == CHOOSE i \in blanks : \A j \in blanks : i <= j
    IN  Len(stream_read) - first

NextRecordLines ==
    IF RecordsRead < MaxRecords THEN RecordLines ELSE {Blank}

\* lines 562-591, one pass
RecordStep ==
    /\ UNCHANGED <<rvars, svars>>
    /\ pc = "records"
    /\ line # Blank
    /\ LET e == RecordEffect(version, line)
       IN  /\ opened' = opened \o e.opened
           /\ looked_up' = looked_up \o e.looked_up
           /\ IF e.raised
              THEN /\ Exit(1)
                   /\ UNCHANGED <<directories, line, stream_read>>
              ELSE /\ directories' = directories \cup e.dirs
                   /\ \E l \in NextRecordLines :
                         /\ line' = l
                         /\ stream_read' = Append(stream_read, l)
                   /\ UNCHANGED <<pc, exit_status>>
    /\ UNCHANGED <<gEnv, version, gFilter, gCreate, gPrune>>

\* line 593 and lines 707-718: get_files returns and its locals go away;
\* main resolves the paths, which it does not use again, and, when the
\* opt-out property is not respected, enables every filesystem
GetFilesReturn ==
    /\ UNCHANGED <<rvars, svars>>
    /\ pc \in {"v1_loop", "records"}
    /\ line = Blank
    /\ version' = 0
    /\ stream_read' = <<>>
    /\ opened' = <<>>
    /\ looked_up' = <<>>
    /\ LET r == filesystems_for_files(directories)
       IN  IF r.asserts
           THEN /\ Exit(1)
                /\ UNCHANGED <<filesystems, pending, enabled_filesystems>>
           ELSE /\ filesystems' = r.datasets
                /\ UNCHANGED exit_status
                /\ IF args.respect_auto_snapshot
                   THEN /\ pending' = r.datasets
                        /\ pc' = IF r.datasets = {} THEN "name" ELSE "filter"
                        /\ UNCHANGED enabled_filesystems
                   ELSE /\ enabled_filesystems' = r.datasets
                        /\ pc' = "name"
                        /\ UNCHANGED pending
    /\ directories' = {}
    /\ UNCHANGED <<gEnv, line, props_seen, gCreate, gPrune>>

\* lines 713-716, one pass; the read fails where zfs reports an error
FetchProps ==
    /\ UNCHANGED <<rvars, svars>>
    /\ pc = "filter"
    /\ \E fs \in pending :
          \/ /\ Exit(1)
             /\ UNCHANGED <<pending, enabled_filesystems, props_seen>>
          \/ \E stored \in StoredValues :
                /\ props_seen' = props_seen \cup {[fs |-> fs, stored |-> stored]}
                /\ enabled_filesystems' =
                      IF AutoSnapshot(binding.get_dataset_props, stored)
                      THEN enabled_filesystems \cup {fs}
                      ELSE enabled_filesystems
                /\ pending' = pending \ {fs}
                /\ pc' = IF pending' = {} THEN "name" ELSE "filter"
                /\ UNCHANGED exit_status
    /\ UNCHANGED <<gEnv, gParse, filesystems, gCreate, gPrune>>

\* lines 721-731; the property maps read by the filter are gone by now
ChooseName ==
    /\ UNCHANGED <<rvars, svars>>
    /\ pc = "name"
    /\ \E c \in ClockReadings :
          /\ clock' = c
          /\ snapshot_name' =
                SnapshotName(strftime(FromClock(c, 0),
                                      SNAPSHOT_TIMESTAMP_FORMAT))
    /\ pending' = {FullName(f, snapshot_name') : f \in enabled_filesystems}
    /\ pc' = IF enabled_filesystems = {} THEN "cleanup" ELSE "create"
    /\ props_seen' = {}
    /\ UNCHANGED <<exit_status, gEnv, gParse, filesystems,
                   enabled_filesystems, create_calls, created,
                   exists_raised, gPrune>>

\* lines 733-736, one pass.  The native create_snapshot (lines 130-135) asks
\* the binding for the snapshot; the shell-out one (lines 138-151) receives
\* bytes from ensure_bytes and so never enters the body of line 140.
CreateSnapshot ==
    /\ UNCHANGED <<rvars, svars>>
    /\ pc = "create"
    /\ \E snapshot \in pending :
          /\ create_calls' = Append(create_calls, snapshot)
          /\ IF binding.create_snapshot = "native" /\ snapshot \in pool
             THEN /\ exists_raised' = TRUE
                  /\ Exit(1)
                  /\ UNCHANGED <<pool, created, pending>>
             ELSE /\ IF binding.create_snapshot = "native"
                     THEN /\ pool' = pool \cup {snapshot}
                          /\ created' = created \cup {snapshot}
                     ELSE UNCHANGED <<pool, created>>
                  /\ pending' = pending \ {snapshot}
                  /\ pc' = IF pending' = {} THEN "cleanup" ELSE "create"
                  /\ UNCHANGED <<exit_status, exists_raised>>
    /\ UNCHANGED <<binding, args, gParse, filesystems, enabled_filesystems,
                   props_seen, clock, snapshot_name, gPrune>>

\* lines 738-749 with neither --purge-old nor listing: nothing to clean up
SkipCleanup ==
    /\ UNCHANGED <<rvars, svars>>
    /\ pc = "cleanup"
    /\ ~(args.list_old \/ args.purge)
    /\ Exit(0)
    /\ UNCHANGED <<gEnv, gParse, gFilter, gCreate, gPrune>>

\* the cleanup entered while the create loop still has snapshots to make
ListOldEarly ==
    /\ UNCHANGED <<rvars, svars>>
    /\ pc \in {"create", "cleanup"}
    /\ args.list_old \/ args.purge
    /\ list_old_called' = TRUE
    /\ listed' = pool
    /\ \E tz \in TzOffsets, us \in Microseconds :
          /\ now' = [sec |-> clock + tz, usec |-> us]
          /\ LET r == list_old(args.old_period,
                               FromClock(clock + tz, us), pool)
             IN  IF r.exits
                 THEN Exit(1) /\ UNCHANGED old_snaps
                 ELSE /\ old_snaps' = r.old_snaps
                      /\ IF args.purge /\ r.old_snaps # {}
                         THEN pc' = "destroy" /\ UNCHANGED exit_status
                         ELSE Exit(0)
    /\ UNCHANGED <<gEnv, gParse, gFilter, gCreate, destroy_calls, destroyed>>

\* lines 738-749: list_old, the listing, and the decision to destroy
ListOld ==
    /\ UNCHANGED <<rvars, svars>>
    /\ pc = "cleanup"
    /\ args.list_old \/ args.purge
    /\ list_old_called' = TRUE
    /\ listed' = pool
    /\ \E tz \in TzOffsets, us \in Microseconds :
          /\ now' = [sec |-> clock + tz, usec |-> us]
          /\ LET r == list_old(args.old_period,
                               FromClock(clock + tz, us), pool)
             IN  IF r.exits
                 THEN Exit(1) /\ UNCHANGED old_snaps
                 ELSE /\ old_snaps' = r.old_snaps
                      /\ IF args.purge /\ r.old_snaps # {}
                         THEN pc' = "destroy" /\ UNCHANGED exit_status
                         ELSE Exit(0)
    /\ UNCHANGED <<gEnv, gParse, gFilter, gCreate, destroy_calls, destroyed>>

\* line 750.  Bound to lzc_get_props (line 53) the call destroys nothing and
\* the binding, handed a tuple of names, returns or raises; the shell-out
\* implementation runs `zfs destroy` on each name.
Destroy ==
    /\ UNCHANGED <<rvars, svars>>
    /\ pc = "destroy"
    /\ destroy_calls' = Append(destroy_calls, old_snaps)
    /\ IF binding.destroy_snapshots = "shell"
       THEN /\ pool' = pool \ old_snaps
            /\ destroyed' = old_snaps
            /\ Exit(0)
       ELSE /\ UNCHANGED <<pool, destroyed>>
            /\ \E status \in {0, 1} : Exit(status)
    /\ UNCHANGED <<binding, args, gParse, gFilter, gCreate, now, listed,
                   list_old_called, old_snaps>>

Next ==
    \/ Load
    \/ GetConfig
    \/ ReadFirstLine
    \/ V1Step
    \/ ConfigSkip
    \/ ConfigEnd
    \/ RecordStep
    \/ GetFilesReturn
    \/ FetchProps
    \/ ChooseName
    \/ CreateSnapshot
    \/ SkipCleanup
    \/ ListOld
    \/ Destroy

Spec == Init /\ [][Next]_vars

(***************************************************************************)
(* get_filesystems on its own: one call on a set of absolute paths, under  *)
(* a mount table that has a root filesystem and a table of zvol devices.   *)
(***************************************************************************)
MaxMounts == 3
MaxPaths == 2

Mountpoints == {Path(<<>>), Path(<<"a">>), Path(<<"a", "b">>), Path(<<"b">>)}

\* Filesystem(type_, name) of a mount entry
MountSources ==
    {[type_ |-> "zfs", name |-> "tank/a"],
     [type_ |-> "zfs", name |-> "tank/b"],
     [type_ |-> "ext4", name |-> "/dev/zd0"],
     [type_ |-> "ext4", name |-> "/dev/zvol/tank/vol"],
     [type_ |-> "ext4", name |-> "/dev/sda1"]}

\* the dictionaries list_mounted_filesystems can return: one entry for each
\* mountpoint, the root among them
MountTables ==
    UNION {{{[mountpoint |-> mp, type_ |-> f[mp].type_, name |-> f[mp].name] :
                mp \in D} : f \in [D -> MountSources]} :
           D \in {E \in SUBSET Mountpoints :
                     Path(<<>>) \in E /\ Cardinality(E) <= MaxMounts}}

VolumeTables == {ZfsVolumes, {}}

ResolverPaths ==
    {Path(<<>>), Path(<<"a">>), Path(<<"a", "b", "c">>), Path(<<"b", "x">>),
     Path(<<"c">>)}

InitResolver ==
    /\ RIdle
    /\ MainStart
    /\ pool = {}
    /\ mounted_filesystems \in MountTables
    /\ zfs_volumes \in VolumeTables
    /\ res_paths \in {P \in SUBSET ResolverPaths : Cardinality(P) <= MaxPaths}
    /\ res_out = [asserts |-> FALSE, datasets |-> {}]
    /\ res_pc = "call"

\* lines 386-424
Resolve ==
    /\ res_pc = "call"
    /\ res_out' = get_filesystems(res_paths)
    /\ res_pc' = "returned"
    /\ UNCHANGED <<rvars, mvars, mounted_filesystems, zfs_volumes, res_paths>>

SpecResolver == InitResolver /\ [][Resolve]_vars

\* the record loop of get_files on one package line, up to its return
RecordsNext == RecordStep \/ GetFilesReturn

SpecRecords == InitRecords /\ [][RecordsNext]_vars

(***************************************************************************)
(* Properties of the run                                                   *)
(***************************************************************************)
CreateCallsFor(fs) == {i \in DOMAIN create_calls : create_calls[i].fs = fs}

\* C2: at the end of a successful run every enabled volume has had exactly
\* one create_snapshot call and its snapshot <volume>@zfs-apt-snap_<timestamp>
\* has actually been created, with either implementation of create_snapshot.
C2_OneSnapshotPerVolume ==
    (pc = "exited" /\ exit_status = 0) =>
        \A fs \in enabled_filesystems :
            /\ Cardinality(CreateCallsFor(fs)) = 1
            /\ FullName(fs, snapshot_name) \in created
            /\ FullName(fs, snapshot_name) \in pool \cup destroyed

\* C3: in a version 1 stream that starts with the marker VERSION 1, the
\* marker line is never passed to DebPackage as an archive path.
C3_MarkerNotOpened ==
    (stream_read # <<>> /\ stream_read[1] = VersionLine("1")) =>
        \A i \in DOMAIN opened : opened[i] # VersionLine("1")

\* the instant a snapshot name stands for, a whole second, is older than now
\* minus the retention window, which carries the microseconds of now
OlderThanWindow(sec) ==
    LET limit == now.sec - args.old_period * 86400
    IN  sec < limit \/ (sec = limit /\ 0 < now.usec)

\* the listed snapshots that carry the tool's prefix and whose timestamp is
\* strictly older than the window, told from the instant they were named for
ExpectedStale ==
    {s \in listed :
        \/ \E e \in OwnEpochs \cup ClockReadings :
              s = SnapAt(s.fs, e) /\ OlderThanWindow(e)
        \/ s = SnapOnDay(s.fs, LegacyDay) /\ OlderThanWindow(LegacyDay)}

FalseLike(stored) == Lower(stored) \in {"false", "off"}

\* C5: once the filter has run, a resolved volume is left out of the enabled
\* set exactly when the opt-out property is respected and the volume has
\* com.sun:auto-snapshot set to a false-like value.
C5_OptOutFilter ==
    pc = "name" =>
        \A fs \in filesystems :
            (fs \notin enabled_filesystems) <=>
                /\ args.respect_auto_snapshot
                /\ \E p \in props_seen : p.fs = fs /\ FalseLike(p.stored)

\* C6: when create_snapshot raises SnapshotCreationError for one volume, the
\* run still calls create_snapshot for every other enabled volume.
C6_RemainingVolumesAttempted ==
    (pc = "exited" /\ exists_raised) =>
        {create_calls[i].fs : i \in DOMAIN create_calls} = enabled_filesystems

\* C7: SnapshotExists is not fatal: a run in which create_snapshot raised it
\* does not end with a nonzero exit status.
C7_ExistsNotFatal ==
    exists_raised => ~(pc = "exited" /\ exit_status # 0)

UnsupportedVersionLine(first) ==
    /\ HasVersionPrefix(first)
    /\ Len(first) = 2
    /\ first[2] \in Numerals
    /\ IntOf(first[2]) \notin {1, 2, 3}

\* C8: when the first line is VERSION n with n outside {1, 2, 3} the run has
\* exited with a nonzero status, no archive and no installed package has been
\* read, and no snapshot has been created or destroyed.
C8_UnsupportedVersionExits ==
    (stream_read # <<>> /\ UnsupportedVersionLine(stream_read[1])) =>
        /\ pc = "exited"
        /\ exit_status # 0
        /\ opened = <<>> /\ looked_up = <<>>
        /\ create_calls = <<>> /\ created = {}
        /\ destroy_calls = <<>> /\ destroyed = {}

\* C8 witness: a stream announcing version 4 has ended the run.
C8_Witness ==
    /\ stream_read = <<VersionLine("4")>>
    /\ pc = "exited"
    /\ exit_status = 1

\* C9 as stated: whenever a snapshot with the prefix and an unparseable
\* timestamp exists, the run ends with a nonzero status and without a call
\* of destroy_snapshots.
C9_AnyRunFails ==
    (pc = "exited" /\ UnparseableSnapshot \in pool) =>
        exit_status # 0 /\ destroy_calls = <<>>

\* C9 amended: when list_old runs and the listing holds a snapshot with the
\* prefix and an unparseable timestamp, the run has exited with a nonzero
\* status and destroy_snapshots has not been called.
C9_ParseFailureFatal ==
    (list_old_called /\ UnparseableSnapshot \in listed) =>
        /\ pc = "exited"
        /\ exit_status # 0
        /\ destroy_calls = <<>>
        /\ destroyed = {}

\* C9 witness: a purging run stopped by an unparseable name while a stale
\* snapshot was waiting to be destroyed.
C9_Witness ==
    /\ list_old_called
    /\ args.purge
    /\ UnparseableSnapshot \in listed
    /\ SnapAt("tank/a", BaseClock - 86400 - 1) \in listed
    /\ pc = "exited"
    /\ exit_status = 1

StorageOperations ==
    {"create_snapshot", "list_snapshots", "get_dataset_props",
     "destroy_snapshots"}

\* C11: once the module has been loaded, with or without the native binding,
\* every storage operation is bound to an implementation, so that no run ends
\* at load time for want of one.
C11_BoundAfterLoad ==
    pc # "load" => \A op \in StorageOperations : binding[op] # "unbound"

\* the first package line has been handled and nothing after it
FirstRecordDone ==
    \/ pc = "exited" /\ Len(stream_read) = 3
    \/ pc = "records" /\ Len(stream_read) = 4

IsInstalled(name) == \E c \in AptCache : c.name = name /\ c.is_installed

IsPrefixOf(s, t) == Len(s) <= Len(t) /\ s = SubSeq(t, 1, Len(s))

\* the archives to open for a package line with these fields
ExpectedOpened(action) ==
    IF action \in {"**REMOVE**", "**CONFIGURE**"} THEN <<>>
    ELSE <<<<action>>>>

\* the installed packages whose file list is to be read
ExpectedLookedUp(name, old, action) ==
    IF action \in {"**REMOVE**", "**CONFIGURE**"}
    THEN (IF IsInstalled(name) THEN <<name>> ELSE <<>>)
    ELSE (IF old # "-" THEN <<name>> ELSE <<>>)

\* C12: for a version 2 or 3 package line, the archives opened and the
\* installed packages read are those its fields call for: with the action
\* **REMOVE** or **CONFIGURE** only the installed package, and only if it is
\* installed; otherwise the archive, and the installed package exactly when
\* the old version is not "-".  Nothing else is read, also when the line
\* makes the run fail, and a name of several words changes nothing.
C12_RecordSources ==
    FirstRecordDone =>
        \A name \in PackageNames, old \in OldVersions, action \in ActionFields :
            stream_read[3] = Record(version, name, old, action) =>
                /\ IsPrefixOf(opened, ExpectedOpened(action))
                /\ IsPrefixOf(looked_up, ExpectedLookedUp(name, old, action))
                /\ pc = "records" =>
                      /\ opened = ExpectedOpened(action)
                      /\ looked_up = ExpectedLookedUp(name, old, action)

\* C12 witness: the upgrade of a package whose name has two words has read
\* the archive and the installed package.
C12_Witness ==
    /\ pc = "records"
    /\ Len(stream_read) = 4
    /\ stream_read[3] = Record(3, <<"my", "pkg">>, "1.0", "/tmp/pkg-a.deb")
    /\ opened = << <<"/tmp/pkg-a.deb">> >>
    /\ looked_up = << <<"my", "pkg">> >>

\* the mount that owns a path, found by walking up from the path to the
\* first directory that is a mountpoint
RECURSIVE OwningMount(_)
OwningMount(parts) ==
    IF \E m \in mounted_filesystems : m.mountpoint = Path(parts)
    THEN CHOOSE m \in mounted_filesystems : m.mountpoint = Path(parts)
    ELSE OwningMount(SubSeq(parts, 1, Len(parts) - 1))

\* the volume a path resolves to, if any
ExpectedVolumes(path) ==
    LET m == OwningMount(path.parts)
    IN  IF m.type_ = "zfs" THEN {m.name}
        ELSE {z.volume : z \in {a \in zfs_volumes : a.device = m.name}}

\* C13: get_filesystems returns, for the paths it is given, the volumes of
\* their owning mounts, the owning mount of a path being the most specific
\* mountpoint above it: the source of a zfs mount, the volume the device
\* table gives for the source of any other mount, and nothing for a device
\* that is not in the table, which does not stop the other paths from being
\* resolved.
C13_OwningMount ==
    res_pc = "returned" =>
        /\ ~res_out.asserts
        /\ res_out.datasets = UNION {ExpectedVolumes(p) : p \in res_paths}

\* C13 witness: below a zfs mount, a path on a nested mount of a zvol device
\* resolves to the volume, and a path on the root disk to nothing.
C13_Witness ==
    /\ res_pc = "returned"
    /\ res_paths = {Path(<<"a", "b", "c">>), Path(<<"c">>)}
    /\ mounted_filesystems =
          {[mountpoint |-> Path(<<>>), type_ |-> "ext4", name |-> "/dev/sda1"],
           [mountpoint |-> Path(<<"a">>), type_ |-> "zfs", name |-> "tank/a"],
           [mountpoint |-> Path(<<"a", "b">>), type_ |-> "ext4",
            name |-> "/dev/zd0"]}
    /\ zfs_volumes = ZfsVolumes
    /\ res_out.datasets = {"tank/vol"}

\* the stage of main a position of the run belongs to
StageOf(p) ==
    IF p \in {"load", "get_config"} THEN 0
    ELSE IF p \in {"get_files", "v1_loop", "config_block", "records"} THEN 1
    ELSE IF p = "filter" THEN 2
    ELSE IF p \in {"name", "create"} THEN 3
    ELSE IF p \in {"cleanup", "destroy"} THEN 4
    ELSE 5

VolumesAttempted == {create_calls[i].fs : i \in DOMAIN create_calls}

\* one step of the run respects the order of the stages
StageOrderStep ==
    /\ StageOf(pc) <= StageOf(pc')
    /\ props_seen' \ props_seen # {} =>
          /\ pc = "filter" /\ line = Blank
          /\ create_calls = <<>> /\ ~list_old_called /\ destroy_calls = <<>>
    /\ create_calls' # create_calls =>
          /\ pc = "create"
          /\ ~list_old_called /\ ~list_old_called' /\ destroy_calls' = <<>>
    /\ (list_old_called' /\ ~list_old_called) =>
          /\ VolumesAttempted = enabled_filesystems
          /\ create_calls' = create_calls
    /\ destroy_calls' # destroy_calls =>
          /\ list_old_called
          /\ create_calls' = create_calls

\* a run that ended before the snapshot name was chosen, that is in parsing,
\* resolution or property reading, has created and destroyed nothing
EarlyFailureHarmless ==
    (pc = "exited" /\ snapshot_name = <<>>) =>
        /\ create_calls = <<>> /\ created = {}
        /\ destroy_calls = <<>> /\ destroyed = {}
        /\ ~list_old_called

\* C14: the stages of a run occur in order and none is re-entered: properties
\* are fetched only after the stream is parsed and before any create_snapshot
\* call, create_snapshot is called only before the listing and destruction of
\* old snapshots, and a run that fails in parsing, resolution or property
\* reading has created and destroyed nothing.
C14_StagesInOrder == [][StageOrderStep]_vars /\ []EarlyFailureHarmless

\* C14 witness: a run with two volumes that read the property of one and
\* failed reading the other's, while snapshots exist.
C14_Witness ==
    /\ pc = "exited"
    /\ exit_status = 1
    /\ Cardinality(filesystems) = 2
    /\ Cardinality(props_seen) = 1
    /\ snapshot_name = <<>>
    /\ pool # {}

\* C15: a snapshot created by the run is never in the list of old snapshots
\* list_old returns to the same run, never passed to destroy_snapshots and
\* never destroyed by it, whatever the retention period and the offset
\* between the local clock and UTC.
C15_OwnSnapshotKept ==
    \A s \in created :
        /\ s \notin old_snaps
        /\ \A i \in DOMAIN destroy_calls : s \notin destroy_calls[i]
        /\ s \notin destroyed

RNext == RFirstPath \/ RLoop \/ RReturn \/ RReapply

\* one call on a file list, the rest of the program at rest
InitReducer == RInit /\ MainStart /\ SIdle /\ pool = {}

SpecReducer == InitReducer /\ [][RNext]_vars

\* C1: the set directories_for_package returns is prefix-free, whatever the
\* order of the file list: no returned path is an ancestor of another one.
C1_PrefixFree ==
    (r_pc = "returned" /\ r_pass = 1) => PrefixFree(r_directories)

\* C10: applying directories_for_package to its own output, enumerated in
\* any order, returns the set the first application returned.
C10_Idempotent ==
    (r_pc = "returned" /\ r_pass = 2) => r_directories = r_first

====
